---- MODULE Spec2Model ----
(***************************************************************************)
(* Warehouse monitoring service: the reconciliation engine                 *)
(* (app/services/warehouse_service.py) over the two database tables        *)
(* (app/models/database.py), the database-backed query routes              *)
(* (app/api/routes.py) and the in-memory, lru_cache'd query handlers of    *)
(* app/main.py.                                                            *)
(*                                                                         *)
(* An Optional[...] column or field is a set with at most one element:     *)
(* {} is None/NULL and {v} is the value v.  Timestamps are whole seconds   *)
(* since an arbitrary epoch, so a timedelta's total_seconds() is the       *)
(* difference of two timestamps.                                           *)
(***************************************************************************)
EXTENDS Integers, Sequences, FiniteSets, TLC

\* ---------------------------------------------------------------- bounds
\* process_message calls in one behaviour
MaxCalls == 3
\* largest quantity an event carries
MaxQty == 2

\* --------------------------------------------------------------- domains
MovementIds == {"MOV-1", "MOV-2"}
Warehouses == {"WH-1", "WH-2"}
Products == {"PROD-1", "PROD-2"}
\* two instants, so that either side of a movement can be the earlier one
Timestamps == {1, 2}
EventKinds == {"arrival", "departure"}

\* MovementData (the payload of a KafkaMessage; process_message reads nothing
\* else of the envelope).  schemas.py declares quantity: int with no lower
\* bound, so a message may carry a zero or negative quantity.
Messages ==
    [movement_id : {"MOV-1"}, warehouse_id : Warehouses,
     timestamp : Timestamps, event : EventKinds,
     product_id : {"PROD-1"}, quantity : (-1)..MaxQty]

\* The messages fed to the service while the handlers of main.py are observed.
AppMessages ==
    [movement_id : {"test-movement-1"}, warehouse_id : Warehouses,
     timestamp : {1}, event : EventKinds,
     product_id : {"PROD-1"}, quantity : {1}]

\* The keys the handlers of main.py are asked for.
AppMovementIds == {"test-movement-1", "MOV-1"}
AppKeys == {<<"WH-1", "PROD-1">>, <<"WH-2", "PROD-2">>}

\* The messages that are events of the data model: quantity > 0.
ValidMessages ==
    [movement_id : MovementIds, warehouse_id : Warehouses,
     timestamp : Timestamps, event : EventKinds,
     product_id : {"PROD-1"}, quantity : 1..MaxQty]

None == {}
Some(v) == {v}
The(s) == CHOOSE v \in s : TRUE

VARIABLES
    warehouse_states,   \* rows of the warehouse_states table
    movements,          \* rows of the movements table
    calls,              \* process_message calls made so far
    op,                 \* the operation that ran last
    result,             \* Optional: what process_message returned, if it ran last
    response,           \* Optional: what the query handler answered, if one ran last
    accepted,           \* movement_ids of the messages process_message returned True for
    touched,            \* <<warehouse_id, product_id>> of those messages
    started,            \* main.py: startup_event has run
    app_warehouses,     \* main.py: the dict warehouses
    app_movements,      \* main.py: the dict movements
    movement_cache,     \* main.py: the lru_cache of get_movement_cached, least recent first
    warehouse_cache,    \* main.py: the lru_cache of get_warehouse_state_cached
    lookups,            \* main.py: per memoized function, the keys looked up, least recent first
    evicted,            \* main.py: per memoized function, the keys whose entry was dropped
    topic,              \* the payloads the transport holds, by offset
    consumer_pc,        \* where the thread of _consume is
    consumer,           \* self.consumer is set (the KafkaConsumer was created)
    should_stop,        \* self.should_stop
    position,           \* offsets the KafkaConsumer has yielded to the for loop
    committed,          \* offsets committed for the group 'warehouse-service'
    in_flight,          \* offsets whose process_message coroutine runs on the loop
    future,             \* Optional: what the coroutine of the current message returned
    submitted,          \* offsets passed to process_message, in order
    returned,           \* [offset, ret, fault] of every finished coroutine, in order
    logged,             \* what _consume logged last
    raised,             \* the exception _consume caught last
    invocations,        \* concurrent process_message invocations, by slot
    ledger_sum          \* signed quantity of the invocations that returned True

db_vars == <<warehouse_states, movements, calls, accepted, touched>>
app_vars == <<started, app_warehouses, app_movements, movement_cache, warehouse_cache>>
consumer_vars == <<topic, consumer_pc, consumer, should_stop, position, committed,
                   in_flight, future, submitted, returned, logged, raised>>
conc_vars == <<invocations, ledger_sum>>
ext_vars == <<lookups, evicted, consumer_vars, conc_vars>>
vars == <<warehouse_states, movements, calls, op, result, response, accepted, touched,
          started, app_warehouses, app_movements, movement_cache, warehouse_cache,
          lookups, evicted, consumer_vars, conc_vars>>

\* ------------------------------------------------------- database access
\* database.fetch_one: the first matching row, or None
fetch_one(rows) == IF rows = {} THEN None ELSE Some(CHOOSE r \in rows : TRUE)

\* mutant: the select filters on product_id alone
get_warehouse_state_any_warehouse(ws, warehouse_id, product_id) ==
    LET res == fetch_one({r \in ws : r.product_id = product_id})
    IN  IF res = None
        THEN [warehouse_id |-> warehouse_id, product_id |-> product_id, quantity |-> 0]
        ELSE [warehouse_id |-> The(res).warehouse_id,
              product_id |-> The(res).product_id,
              quantity |-> The(res).quantity]

get_warehouse_state(ws, warehouse_id, product_id) ==
    LET res == fetch_one({r \in ws : r.warehouse_id = warehouse_id
                                     /\ r.product_id = product_id})
    IN  IF res = None
        THEN [warehouse_id |-> warehouse_id, product_id |-> product_id, quantity |-> 0]
        ELSE [warehouse_id |-> The(res).warehouse_id,
              product_id |-> The(res).product_id,
              quantity |-> The(res).quantity]

\* mutant: the update's state_id is built the other way round, so it matches no row
update_warehouse_state_wrong_id(ws, warehouse_id, product_id, quantity) ==
    LET state_id == product_id \o ":" \o warehouse_id
        res == fetch_one({r \in ws : r.warehouse_id = warehouse_id
                                     /\ r.product_id = product_id})
    IN  IF res # None
        THEN {IF r.id = state_id THEN [r EXCEPT !.quantity = quantity] ELSE r : r \in ws}
        ELSE ws \cup {[id |-> warehouse_id \o ":" \o product_id,
                       warehouse_id |-> warehouse_id,
                       product_id |-> product_id, quantity |-> quantity]}

\* mutant: the update is keyed on the product alone
update_warehouse_state_by_product(ws, warehouse_id, product_id, quantity) ==
    LET state_id == warehouse_id \o ":" \o product_id
        res == fetch_one({r \in ws : r.warehouse_id = warehouse_id
                                     /\ r.product_id = product_id})
    IN  IF res # None
        THEN {IF r.product_id = product_id THEN [r EXCEPT !.quantity = quantity] ELSE r
              : r \in ws}
        ELSE ws \cup {[id |-> state_id, warehouse_id |-> warehouse_id,
                       product_id |-> product_id, quantity |-> quantity]}

update_warehouse_state(ws, warehouse_id, product_id, quantity) ==
    LET state_id == warehouse_id \o ":" \o product_id
        res == fetch_one({r \in ws : r.warehouse_id = warehouse_id
                                     /\ r.product_id = product_id})
    IN  IF res # None
        THEN {IF r.id = state_id THEN [r EXCEPT !.quantity = quantity] ELSE r : r \in ws}
        ELSE ws \cup {[id |-> state_id, warehouse_id |-> warehouse_id,
                       product_id |-> product_id, quantity |-> quantity]}

\* (arrival_time - timestamp).total_seconds()
total_seconds(later, earlier) == later - earlier

\* mutant: a departure replaces the record of the movement
update_movement_departure_replace(ms, movement_id, warehouse_id, product_id, timestamp, quantity) ==
    {m \in ms : m.movement_id # movement_id} \cup
    {[movement_id |-> movement_id,
      source_warehouse |-> Some(warehouse_id),
      destination_warehouse |-> None,
      product_id |-> product_id,
      departure_time |-> Some(timestamp),
      arrival_time |-> None,
      time_difference_seconds |-> None,
      departure_quantity |-> Some(quantity),
      arrival_quantity |-> None,
      quantity_difference |-> None]}

\* mutant: an update of the departure side leaves the derived fields as stored
update_movement_departure_stale(ms, movement_id, warehouse_id, product_id, timestamp, quantity) ==
    LET res == fetch_one({m \in ms : m.movement_id = movement_id})
        movement == The(res)
    IN  IF res # None
        THEN (ms \ {movement}) \cup
             {[movement EXCEPT !.source_warehouse = Some(warehouse_id),
                               !.departure_time = Some(timestamp),
                               !.departure_quantity = Some(quantity)]}
        ELSE ms \cup {[movement_id |-> movement_id,
                       source_warehouse |-> Some(warehouse_id),
                       destination_warehouse |-> None,
                       product_id |-> product_id,
                       departure_time |-> Some(timestamp),
                       arrival_time |-> None,
                       time_difference_seconds |-> None,
                       departure_quantity |-> Some(quantity),
                       arrival_quantity |-> None,
                       quantity_difference |-> None]}

update_movement_departure(ms, movement_id, warehouse_id, product_id, timestamp, quantity) ==
    LET res == fetch_one({m \in ms : m.movement_id = movement_id})
        movement == The(res)
        values == [movement EXCEPT !.source_warehouse = Some(warehouse_id),
                                   !.departure_time = Some(timestamp),
                                   !.departure_quantity = Some(quantity)]
    IN  IF res # None
        THEN (ms \ {movement}) \cup
             {IF movement.arrival_time # None
              THEN [values EXCEPT
                      !.time_difference_seconds =
                          Some(total_seconds(The(movement.arrival_time), timestamp)),
                      !.quantity_difference =
                          Some(The(movement.arrival_quantity) - quantity)]
              ELSE values}
        ELSE ms \cup {[movement_id |-> movement_id,
                       source_warehouse |-> Some(warehouse_id),
                       destination_warehouse |-> None,
                       product_id |-> product_id,
                       departure_time |-> Some(timestamp),
                       arrival_time |-> None,
                       time_difference_seconds |-> None,
                       departure_quantity |-> Some(quantity),
                       arrival_quantity |-> None,
                       quantity_difference |-> None]}

\* mutant: an arrival also writes its product_id into the record
update_movement_arrival_sets_product(ms, movement_id, warehouse_id, product_id, timestamp, quantity) ==
    LET res == fetch_one({m \in ms : m.movement_id = movement_id})
        movement == The(res)
        values == [movement EXCEPT !.destination_warehouse = Some(warehouse_id),
                                   !.arrival_time = Some(timestamp),
                                   !.arrival_quantity = Some(quantity),
                                   !.product_id = product_id]
    IN  IF res # None
        THEN (ms \ {movement}) \cup
             {IF movement.departure_time # None
              THEN [values EXCEPT
                      !.time_difference_seconds =
                          Some(total_seconds(timestamp, The(movement.departure_time))),
                      !.quantity_difference =
                          Some(quantity - The(movement.departure_quantity))]
              ELSE values}
        ELSE ms \cup {[movement_id |-> movement_id,
                       source_warehouse |-> None,
                       destination_warehouse |-> Some(warehouse_id),
                       product_id |-> product_id,
                       departure_time |-> None,
                       arrival_time |-> Some(timestamp),
                       time_difference_seconds |-> None,
                       departure_quantity |-> None,
                       arrival_quantity |-> Some(quantity),
                       quantity_difference |-> None]}

\* mutant: the arrival side subtracts the other way round
update_movement_arrival_swapped(ms, movement_id, warehouse_id, product_id, timestamp, quantity) ==
    LET res == fetch_one({m \in ms : m.movement_id = movement_id})
        movement == The(res)
        values == [movement EXCEPT !.destination_warehouse = Some(warehouse_id),
                                   !.arrival_time = Some(timestamp),
                                   !.arrival_quantity = Some(quantity)]
    IN  IF res # None
        THEN (ms \ {movement}) \cup
             {IF movement.departure_time # None
              THEN [values EXCEPT
                      !.time_difference_seconds =
                          Some(total_seconds(The(movement.departure_time), timestamp)),
                      !.quantity_difference =
                          Some(The(movement.departure_quantity) - quantity)]
              ELSE values}
        ELSE ms \cup {[movement_id |-> movement_id,
                       source_warehouse |-> None,
                       destination_warehouse |-> Some(warehouse_id),
                       product_id |-> product_id,
                       departure_time |-> None,
                       arrival_time |-> Some(timestamp),
                       time_difference_seconds |-> None,
                       departure_quantity |-> None,
                       arrival_quantity |-> Some(quantity),
                       quantity_difference |-> None]}

update_movement_arrival(ms, movement_id, warehouse_id, product_id, timestamp, quantity) ==
    LET res == fetch_one({m \in ms : m.movement_id = movement_id})
        movement == The(res)
        values == [movement EXCEPT !.destination_warehouse = Some(warehouse_id),
                                   !.arrival_time = Some(timestamp),
                                   !.arrival_quantity = Some(quantity)]
    IN  IF res # None
        THEN (ms \ {movement}) \cup
             {IF movement.departure_time # None
              THEN [values EXCEPT
                      !.time_difference_seconds =
                          Some(total_seconds(timestamp, The(movement.departure_time))),
                      !.quantity_difference =
                          Some(quantity - The(movement.departure_quantity))]
              ELSE values}
        ELSE ms \cup {[movement_id |-> movement_id,
                       source_warehouse |-> None,
                       destination_warehouse |-> Some(warehouse_id),
                       product_id |-> product_id,
                       departure_time |-> None,
                       arrival_time |-> Some(timestamp),
                       time_difference_seconds |-> None,
                       departure_quantity |-> None,
                       arrival_quantity |-> Some(quantity),
                       quantity_difference |-> None]}

get_movement_info(ms, movement_id) ==
    fetch_one({m \in ms : m.movement_id = movement_id})

\* ------------------------------------------------------- process_message
\* The two tables after process_message(message) and the value it returns.
\* No database call fails in the specifications below, so the except branch
\* (lines 45-47, return False) is not taken.
\* mutant: a departure is never checked against the stock
process_message_unchecked(ws, ms, data) ==
    LET current_state == get_warehouse_state(ws, data.warehouse_id, data.product_id)
        new_quantity == IF data.event = "departure"
                        THEN current_state.quantity - data.quantity
                        ELSE current_state.quantity + data.quantity
    IN  [warehouse_states |->
             update_warehouse_state(ws, data.warehouse_id, data.product_id, new_quantity),
         movements |->
             IF data.event = "departure"
             THEN update_movement_departure(ms, data.movement_id, data.warehouse_id,
                                            data.product_id, data.timestamp, data.quantity)
             ELSE update_movement_arrival(ms, data.movement_id, data.warehouse_id,
                                          data.product_id, data.timestamp, data.quantity),
         ret |-> TRUE]

\* mutant: the departure side is recorded before the stock is checked
process_message_records_first(ws, ms, data) ==
    LET current_state == get_warehouse_state(ws, data.warehouse_id, data.product_id)
        out == process_message_unchecked(ws, ms, data)
    IN  IF data.event = "departure" /\ current_state.quantity < data.quantity
        THEN [warehouse_states |-> ws, movements |-> out.movements, ret |-> FALSE]
        ELSE out

process_message(ws, ms, data) ==
    LET current_state == get_warehouse_state(ws, data.warehouse_id, data.product_id)
    IN  IF data.event = "departure"
        THEN IF current_state.quantity < data.quantity
             THEN [warehouse_states |-> ws, movements |-> ms, ret |-> FALSE]
             ELSE [warehouse_states |->
                       update_warehouse_state(ws, data.warehouse_id, data.product_id,
                                              current_state.quantity - data.quantity),
                   movements |->
                       update_movement_departure(ms, data.movement_id, data.warehouse_id,
                                                 data.product_id, data.timestamp,
                                                 data.quantity),
                   ret |-> TRUE]
        ELSE [warehouse_states |->
                  update_warehouse_state(ws, data.warehouse_id, data.product_id,
                                         current_state.quantity + data.quantity),
              movements |->
                  update_movement_arrival(ms, data.movement_id, data.warehouse_id,
                                          data.product_id, data.timestamp, data.quantity),
              ret |-> TRUE]

\* ------------------------------------------------------ routes.py handlers
\* mutant: the handler does not test for None
read_movement_no_404(ms, movement_id) ==
    [status |-> 200, movement |-> get_movement_info(ms, movement_id), state |-> None]

read_movement(ms, movement_id) ==
    LET movement == get_movement_info(ms, movement_id)
    IN  IF movement = None
        THEN [status |-> 404, movement |-> None, state |-> None]
        ELSE [status |-> 200, movement |-> movement, state |-> None]

read_warehouse_state(ws, warehouse_id, product_id) ==
    [status |-> 200, movement |-> None,
     state |-> Some(get_warehouse_state(ws, warehouse_id, product_id))]

\* ------------------------------------------------------------------ main.py
\* @lru_cache(maxsize=100)
maxsize == 100

\* dict.get(key): the value, or None
dict_get(d, key) == IF key \in DOMAIN d THEN Some(d[key]) ELSE None

\* One call of a function wrapped by functools.lru_cache: a hit returns the
\* stored result and makes the entry the most recent; a miss stores `computed`,
\* the wrapped function's result, after dropping the least recent entry of a
\* full cache.  A result of None is stored like any other.
\* mutant: the memo never drops an entry
lru_cache_unbounded(cache, key, computed) ==
    LET hits == {i \in 1..Len(cache) : cache[i].key = key}
        i == CHOOSE j \in hits : TRUE
    IN  IF hits # {}
        THEN [cache |-> SubSeq(cache, 1, i - 1) \o SubSeq(cache, i + 1, Len(cache))
                          \o <<cache[i]>>,
              value |-> cache[i].value]
        ELSE [cache |-> Append(cache, [key |-> key, value |-> computed]),
              value |-> computed]

lru_cache(cache, key, computed) ==
    LET hits == {i \in 1..Len(cache) : cache[i].key = key}
        i == CHOOSE j \in hits : TRUE
        kept == IF Len(cache) >= maxsize THEN Tail(cache) ELSE cache
    IN  IF hits # {}
        THEN [cache |-> SubSeq(cache, 1, i - 1) \o SubSeq(cache, i + 1, Len(cache))
                          \o <<cache[i]>>,
              value |-> cache[i].value]
        ELSE [cache |-> Append(kept, [key |-> key, value |-> computed]),
              value |-> computed]

get_movement_cached(cache, movement_id) ==
    lru_cache(cache, movement_id, dict_get(app_movements, movement_id))

get_warehouse_state_cached(cache, warehouse_key) ==
    lru_cache(cache, warehouse_key, dict_get(app_warehouses, warehouse_key))

\* The two memoized functions of main.py.
Memoized == {"movement", "warehouse"}

\* The keys looked up since the caches were last cleared, each once, the least
\* recently looked up first: what an unbounded memo would hold.
touch(log, k) == SelectSeq(log, LAMBDA e : e # k) \o <<k>>

cache_keys(cache) == {cache[i].key : i \in 1..Len(cache)}

\* The process_message invocations that may run at the same time on the loop.
Slots == {"A", "B"}
idle == [pc |-> "idle", data |-> None, quantity |-> 0]

\* ---------------------------------------------------------------- actions
Init ==
    /\ warehouse_states = {}
    /\ movements = {}
    /\ calls = 0
    /\ op = "init"
    /\ result = None
    /\ response = None
    /\ accepted = {}
    /\ touched = {}
    /\ started = FALSE
    /\ app_warehouses = <<>>
    /\ app_movements = <<>>
    /\ movement_cache = <<>>
    /\ warehouse_cache = <<>>
    /\ lookups = [f \in Memoized |-> <<>>]
    /\ evicted = [f \in Memoized |-> {}]
    /\ topic = <<>>
    /\ consumer_pc = "idle"
    /\ consumer = FALSE
    /\ should_stop = FALSE
    /\ position = 0
    /\ committed = 0
    /\ in_flight = {}
    /\ future = None
    /\ submitted = <<>>
    /\ returned = <<>>
    /\ logged = "none"
    /\ raised = "none"
    /\ invocations = [slot \in Slots |-> idle]
    /\ ledger_sum = 0

ProcessMessage(data) ==
    /\ calls < MaxCalls
    /\ \E out \in {process_message(warehouse_states, movements, data)} :
           /\ warehouse_states' = out.warehouse_states
           /\ movements' = out.movements
           /\ result' = Some(out.ret)
           /\ accepted' = IF out.ret THEN accepted \cup {data.movement_id} ELSE accepted
           /\ touched' = IF out.ret
                         THEN touched \cup {<<data.warehouse_id, data.product_id>>}
                         ELSE touched
    /\ calls' = calls + 1
    /\ op' = "process_message"
    /\ response' = None
    /\ UNCHANGED <<app_vars, ext_vars>>

ReadMovement(movement_id) ==
    /\ response' = Some(read_movement(movements, movement_id))
    /\ result' = None
    /\ op' = "read_movement"
    /\ UNCHANGED <<db_vars, app_vars, ext_vars>>

ReadWarehouseState(warehouse_id, product_id) ==
    /\ response' = Some(read_warehouse_state(warehouse_states, warehouse_id, product_id))
    /\ result' = None
    /\ op' = "read_warehouse_state"
    /\ UNCHANGED <<db_vars, app_vars, ext_vars>>

\* main.py: startup_event, which the server runs before it serves a request
StartupEvent ==
    /\ ~started
    /\ movement_cache = <<>> /\ warehouse_cache = <<>>
    /\ started' = TRUE
    /\ app_movements' =
          [k \in DOMAIN app_movements \cup {"test-movement-1"} |->
             IF k = "test-movement-1"
             THEN [movement_id |-> "test-movement-1",
                   source_warehouse |-> Some("WH-1"),
                   destination_warehouse |-> Some("WH-2"),
                   product_id |-> "PROD-1",
                   departure_time |-> Some("2023-04-01T10:00:00"),
                   arrival_time |-> Some("2023-04-01T12:00:00"),
                   time_difference_seconds |-> Some(7200),
                   departure_quantity |-> Some(50),
                   arrival_quantity |-> Some(50),
                   quantity_difference |-> Some(0)]
             ELSE app_movements[k]]
    /\ app_warehouses' =
          [k \in DOMAIN app_warehouses \cup {"WH-1:PROD-1", "WH-2:PROD-1"} |->
             IF k = "WH-1:PROD-1"
             THEN [warehouse_id |-> "WH-1", product_id |-> "PROD-1", quantity |-> 100]
             ELSE IF k = "WH-2:PROD-1"
             THEN [warehouse_id |-> "WH-2", product_id |-> "PROD-1", quantity |-> 50]
             ELSE app_warehouses[k]]
    /\ op' = "startup_event"
    /\ result' = None /\ response' = None
    /\ UNCHANGED <<db_vars, movement_cache, warehouse_cache, ext_vars>>

\* main.py: read_movement
AppReadMovement(movement_id) ==
    /\ \E c \in {get_movement_cached(movement_cache, movement_id)} :
          /\ movement_cache' = c.cache
          /\ response' =
                Some(IF c.value # None
                     THEN [status |-> 200, movement |-> c.value, state |-> None]
                     ELSE IF dict_get(app_movements, movement_id) # None
                     THEN [status |-> 200,
                           movement |-> dict_get(app_movements, movement_id),
                           state |-> None]
                     ELSE [status |-> 404, movement |-> None, state |-> None])
    /\ op' = "app_read_movement"
    /\ result' = None
    /\ lookups' = [lookups EXCEPT !["movement"] = touch(@, movement_id)]
    /\ evicted' = [evicted EXCEPT !["movement"] =
                       @ \cup (cache_keys(movement_cache) \ cache_keys(movement_cache'))]
    /\ UNCHANGED <<db_vars, started, app_warehouses, app_movements, warehouse_cache,
                   consumer_vars, conc_vars>>

\* main.py: read_warehouse_state
AppReadWarehouseState(warehouse_id, product_id) ==
    /\ \E c \in {get_warehouse_state_cached(warehouse_cache,
                                             warehouse_id \o ":" \o product_id)} :
          /\ warehouse_cache' = c.cache
          /\ response' =
                Some(IF c.value = None
                     THEN [status |-> 200, movement |-> None,
                           state |-> Some([warehouse_id |-> warehouse_id,
                                           product_id |-> product_id,
                                           quantity |-> 0])]
                     ELSE [status |-> 200, movement |-> None, state |-> c.value])
    /\ op' = "app_read_warehouse_state"
    /\ result' = None
    /\ lookups' = [lookups EXCEPT !["warehouse"] =
                       touch(@, warehouse_id \o ":" \o product_id)]
    /\ evicted' = [evicted EXCEPT !["warehouse"] =
                       @ \cup (cache_keys(warehouse_cache) \ cache_keys(warehouse_cache'))]
    /\ UNCHANGED <<db_vars, started, app_warehouses, app_movements, movement_cache,
                   consumer_vars, conc_vars>>

\* main.py: invalidate_cache
InvalidateCache ==
    /\ movement_cache' = <<>>
    /\ warehouse_cache' = <<>>
    /\ op' = "invalidate_cache"
    /\ result' = None /\ response' = None
    /\ lookups' = [f \in Memoized |-> <<>>]
    /\ evicted' = [f \in Memoized |-> {}]
    /\ UNCHANGED <<db_vars, started, app_warehouses, app_movements,
                   consumer_vars, conc_vars>>

Queries ==
    \/ \E movement_id \in MovementIds : ReadMovement(movement_id)
    \/ \E w \in Warehouses, p \in Products : ReadWarehouseState(w, p)

\* The service fed any message the schema admits.
Next ==
    \/ \E data \in Messages : ProcessMessage(data)
    \/ Queries

Spec == Init /\ [][Next]_vars

\* The service fed only events with a positive quantity, for two movements.
\* The query handlers change neither table, so they are left to Spec.
NextValid == \E data \in ValidMessages : ProcessMessage(data)

SpecValid == Init /\ [][NextValid]_vars

\* The application of main.py beside the service.
NextApp ==
    \/ \E data \in AppMessages : ProcessMessage(data)
    \/ StartupEvent
    \/ \E movement_id \in AppMovementIds : AppReadMovement(movement_id)
    \/ \E k \in AppKeys : AppReadWarehouseState(k[1], k[2])
    \/ InvalidateCache

SpecApp == Init /\ [][NextApp]_vars

\* The service fed events of one movement that name either product.
ProductMessages ==
    [movement_id : {"MOV-1"}, warehouse_id : Warehouses,
     timestamp : {1}, event : EventKinds,
     product_id : Products, quantity : 1..MaxQty]

NextProducts == \E data \in ProductMessages : ProcessMessage(data)

SpecProducts == Init /\ [][NextProducts]_vars

\* ------------------------------------------ main.py: the caches when full
\* The i-th of the keys that were looked up to fill a cache.
warehouse_key(i) == "WH-" \o ToString(i) \o ":PROD-1"
movement_key(i) == IF i = 1 THEN "test-movement-1" ELSE "MOV-" \o ToString(i)

\* The dicts as startup_event leaves them.
started_warehouses ==
    [k \in {"WH-1:PROD-1", "WH-2:PROD-1"} |->
        IF k = "WH-1:PROD-1"
        THEN [warehouse_id |-> "WH-1", product_id |-> "PROD-1", quantity |-> 100]
        ELSE [warehouse_id |-> "WH-2", product_id |-> "PROD-1", quantity |-> 50]]

started_movements ==
    [k \in {"test-movement-1"} |->
        [movement_id |-> "test-movement-1",
         source_warehouse |-> Some("WH-1"),
         destination_warehouse |-> Some("WH-2"),
         product_id |-> "PROD-1",
         departure_time |-> Some("2023-04-01T10:00:00"),
         arrival_time |-> Some("2023-04-01T12:00:00"),
         time_difference_seconds |-> Some(7200),
         departure_quantity |-> Some(50),
         arrival_quantity |-> Some(50),
         quantity_difference |-> Some(0)]]

\* The server has started and each handler has since answered maxsize
\* different keys, in the order of their numbers: both caches are full, the
\* entry of the first key is the least recently used one.
InitLru ==
    /\ warehouse_states = {}
    /\ movements = {}
    /\ calls = 0
    /\ op = "init"
    /\ result = None
    /\ response = None
    /\ accepted = {}
    /\ touched = {}
    /\ started = TRUE
    /\ app_warehouses = started_warehouses
    /\ app_movements = started_movements
    /\ movement_cache =
          [i \in 1..maxsize |->
              [key |-> movement_key(i),
               value |-> dict_get(started_movements, movement_key(i))]]
    /\ warehouse_cache =
          [i \in 1..maxsize |->
              [key |-> warehouse_key(i),
               value |-> dict_get(started_warehouses, warehouse_key(i))]]
    /\ lookups = [f \in Memoized |->
                     IF f = "movement"
                     THEN [i \in 1..maxsize |-> movement_key(i)]
                     ELSE [i \in 1..maxsize |-> warehouse_key(i)]]
    /\ evicted = [f \in Memoized |-> {}]
    /\ topic = <<>>
    /\ consumer_pc = "idle"
    /\ consumer = FALSE
    /\ should_stop = FALSE
    /\ position = 0
    /\ committed = 0
    /\ in_flight = {}
    /\ future = None
    /\ submitted = <<>>
    /\ returned = <<>>
    /\ logged = "none"
    /\ raised = "none"
    /\ invocations = [slot \in Slots |-> idle]
    /\ ledger_sum = 0

\* The keys asked for next: the two least recently used ones and one that
\* was not looked up before.
LruWarehouses == {"WH-1", "WH-2", "WH-" \o ToString(maxsize + 1)}
LruMovementIds == {movement_key(1), movement_key(2), movement_key(maxsize + 1)}

NextLru ==
    \/ \E movement_id \in LruMovementIds : AppReadMovement(movement_id)
    \/ \E w \in LruWarehouses : AppReadWarehouseState(w, "PROD-1")

SpecLru == InitLru /\ [][NextLru]_vars

\* --------------------------------------------- kafka_consumer.py: _consume
\* messages the transport may hold in one behaviour
MaxOffsets == 3

\* The events carried by the well-formed payloads of the topic.
ConsumerMessages ==
    [movement_id : {"MOV-1"}, warehouse_id : {"WH-1"},
     timestamp : {1}, event : EventKinds,
     product_id : {"PROD-1"}, quantity : {1}]

\* A payload of the topic: its bytes are JSON or not (json), the JSON fits the
\* KafkaMessage envelope or not (envelope), and a fitting one carries an event.
Payloads ==
    {[json |-> TRUE, envelope |-> TRUE, data |-> Some(d)] : d \in ConsumerMessages}
    \cup {[json |-> TRUE, envelope |-> FALSE, data |-> None],
          [json |-> FALSE, envelope |-> FALSE, data |-> None]}

\* value_deserializer = lambda x: json.loads(x.decode('utf-8')): raises on
\* bytes that are not JSON.  The KafkaConsumer calls it while it is iterated.
value_deserializer(x) == [raises |-> ~x.json, value |-> x]

\* KafkaMessage(**message.value): pydantic raises on a value that does not fit.
KafkaMessage(value) == [raises |-> ~value.envelope, data |-> value.data]

\* The database calls of process_message, any of which may raise.
StoreFaults ==
    {"none", "get_warehouse_state", "update_warehouse_state", "update_movement"}

\* process_message with the database call named by fault raising: the except
\* branch logs and returns False, and what was written before stays written.
process_message_store(ws, ms, data, fault) ==
    LET current_state == get_warehouse_state(ws, data.warehouse_id, data.product_id)
        out == process_message(ws, ms, data)
    IN  IF fault = "get_warehouse_state"
        THEN [warehouse_states |-> ws, movements |-> ms, ret |-> FALSE, raised |-> TRUE]
        ELSE IF data.event = "departure" /\ current_state.quantity < data.quantity
        THEN [warehouse_states |-> ws, movements |-> ms, ret |-> FALSE, raised |-> FALSE]
        ELSE IF fault = "update_warehouse_state"
        THEN [warehouse_states |-> ws, movements |-> ms, ret |-> FALSE, raised |-> TRUE]
        ELSE IF fault = "update_movement"
        THEN [warehouse_states |-> out.warehouse_states, movements |-> ms,
              ret |-> FALSE, raised |-> TRUE]
        ELSE [warehouse_states |-> out.warehouse_states, movements |-> out.movements,
              ret |-> out.ret, raised |-> FALSE]

\* mutant: the loop ends on a message that was not processed
after_result_break(ret) == IF ret = Some(TRUE) THEN "next" ELSE "closing"

\* lines 54-57: either branch only logs, and the for loop goes on
after_result(ret) == "next"

\* mutant: the thread does not wait for the coroutine
result_ready_at_once(fut) == TRUE

\* line 52: future.result() blocks until the coroutine has returned
result_ready(fut) == fut # None

consumer_frame ==
    <<calls, op, result, response, accepted, touched, app_vars, lookups, evicted,
      conc_vars>>

\* The transport receives a payload from a producer.
Produce(payload) ==
    /\ Len(topic) < MaxOffsets
    /\ topic' = Append(topic, payload)
    /\ UNCHANGED <<warehouse_states, movements, consumer_pc, consumer, should_stop,
                   position, committed, in_flight, future, submitted, returned,
                   logged, raised, consumer_frame>>

\* start(): the thread of _consume begins
Start ==
    /\ consumer_pc = "idle"
    /\ consumer_pc' = "connect"
    /\ UNCHANGED <<warehouse_states, movements, topic, consumer, should_stop,
                   position, committed, in_flight, future, submitted, returned,
                   logged, raised, consumer_frame>>

\* stop()
Stop ==
    /\ ~should_stop
    /\ should_stop' = TRUE
    /\ UNCHANGED <<warehouse_states, movements, topic, consumer_pc, consumer,
                   position, committed, in_flight, future, submitted, returned,
                   logged, raised, consumer_frame>>

\* lines 33-40: the KafkaConsumer is created
Connect ==
    /\ consumer_pc = "connect"
    /\ consumer' = TRUE
    /\ consumer_pc' = "next"
    /\ UNCHANGED <<warehouse_states, movements, topic, should_stop,
                   position, committed, in_flight, future, submitted, returned,
                   logged, raised, consumer_frame>>

\* lines 33-40 raise (no broker), caught at 62-63
ConnectFails ==
    /\ consumer_pc = "connect"
    /\ raised' = "transport"
    /\ logged' = "connect_error"
    /\ consumer_pc' = "closing"
    /\ UNCHANGED <<warehouse_states, movements, topic, consumer, should_stop,
                   position, committed, in_flight, future, submitted, returned,
                   consumer_frame>>

\* line 42: the for loop asks the KafkaConsumer for the next message.  With
\* enable_auto_commit=True the client may commit, inside this call, the
\* position it had reached.  A payload the value_deserializer raises on is not
\* yielded: the exception leaves the for statement and is caught at 62-63.
Iterate ==
    /\ consumer_pc = "next"
    /\ position < Len(topic)
    /\ committed' \in {committed, position}
    /\ \E d \in {value_deserializer(topic[position + 1])} :
          IF d.raises
          THEN /\ raised' = "deserializer"
               /\ logged' = "connect_error"
               /\ consumer_pc' = "closing"
               /\ UNCHANGED position
          ELSE /\ position' = position + 1
               /\ consumer_pc' = "got"
               /\ UNCHANGED <<raised, logged>>
    /\ UNCHANGED <<warehouse_states, movements, topic, consumer, should_stop,
                   in_flight, future, submitted, returned, consumer_frame>>

\* line 42 raises (the connection is lost), caught at 62-63
IterateFails ==
    /\ consumer_pc = "next"
    /\ raised' = "transport"
    /\ logged' = "connect_error"
    /\ consumer_pc' = "closing"
    /\ UNCHANGED <<warehouse_states, movements, topic, consumer, should_stop,
                   position, committed, in_flight, future, submitted, returned,
                   consumer_frame>>

\* lines 43-51: the stop test, the envelope, and the coroutine handed to the loop
Handle ==
    /\ consumer_pc = "got"
    /\ IF should_stop
       THEN /\ consumer_pc' = "closing"
            /\ UNCHANGED <<in_flight, future, submitted, logged, raised>>
       ELSE IF KafkaMessage(topic[position]).raises
       THEN /\ raised' = "envelope"
            /\ logged' = "error"
            /\ consumer_pc' = "next"
            /\ UNCHANGED <<in_flight, future, submitted>>
       ELSE /\ in_flight' = in_flight \cup {position}
            /\ submitted' = Append(submitted, position)
            /\ future' = None
            /\ consumer_pc' = "wait"
            /\ UNCHANGED <<logged, raised>>
    /\ UNCHANGED <<warehouse_states, movements, topic, consumer, should_stop,
                   position, committed, returned, consumer_frame>>

\* The loop runs the coroutine process_message(kafka_message) of an offset.
RunCoroutine(offset, fault) ==
    /\ offset \in in_flight
    /\ \E out \in {process_message_store(warehouse_states, movements,
                                         The(KafkaMessage(topic[offset]).data), fault)} :
          /\ warehouse_states' = out.warehouse_states
          /\ movements' = out.movements
          /\ returned' = Append(returned, [offset |-> offset, ret |-> out.ret,
                                           raised |-> out.raised])
          /\ future' = IF offset = position THEN Some(out.ret) ELSE future
    /\ in_flight' = in_flight \ {offset}
    /\ UNCHANGED <<topic, consumer_pc, consumer, should_stop, position, committed,
                   submitted, logged, raised, consumer_frame>>

\* lines 52-57: future.result() and the log line for it
AwaitResult ==
    /\ consumer_pc = "wait"
    /\ result_ready(future)
    /\ logged' = IF future = Some(TRUE) THEN "processed" ELSE "not_processed"
    /\ consumer_pc' = after_result(future)
    /\ future' = None
    /\ UNCHANGED <<warehouse_states, movements, topic, consumer, should_stop,
                   position, committed, in_flight, submitted, returned, raised,
                   consumer_frame>>

\* lines 64-67: finally; close() of a client with enable_auto_commit=True
\* commits the position it had reached.
Close ==
    /\ consumer_pc = "closing"
    /\ committed' = IF consumer THEN position ELSE committed
    /\ consumer_pc' = "terminated"
    /\ UNCHANGED <<warehouse_states, movements, topic, consumer, should_stop,
                   position, in_flight, future, submitted, returned, logged, raised,
                   consumer_frame>>

\* The process dies: the daemon thread and the loop go with it, the committed
\* offset stays with the transport.
Crash ==
    /\ consumer_pc \notin {"idle", "terminated", "crashed"}
    /\ consumer_pc' = "crashed"
    /\ in_flight' = {}
    /\ UNCHANGED <<warehouse_states, movements, topic, consumer, should_stop,
                   position, committed, future, submitted, returned, logged, raised,
                   consumer_frame>>

NextConsumer ==
    \/ \E payload \in Payloads : Produce(payload)
    \/ Start
    \/ Stop
    \/ Connect
    \/ ConnectFails
    \/ Iterate
    \/ IterateFails
    \/ Handle
    \/ \E offset \in 1..MaxOffsets, fault \in StoreFaults : RunCoroutine(offset, fault)
    \/ AwaitResult
    \/ Close
    \/ Crash

SpecConsumer == Init /\ [][NextConsumer]_vars

\* ------------------------------- process_message invocations on one loop
\* The events of the invocations: one ledger key, either movement.
ConcurrentMessages ==
    [movement_id : MovementIds, warehouse_id : {"WH-1"},
     timestamp : {1}, event : EventKinds,
     product_id : {"PROD-1"}, quantity : 1..MaxQty]

\* process_message from line 23 on, current_state.quantity being what line 21
\* read: the check, the two writes, the return value.
process_message_from(ws, ms, data, current_quantity) ==
    IF data.event = "departure"
    THEN IF current_quantity < data.quantity
         THEN [warehouse_states |-> ws, movements |-> ms, ret |-> FALSE]
         ELSE [warehouse_states |->
                   update_warehouse_state(ws, data.warehouse_id, data.product_id,
                                          current_quantity - data.quantity),
               movements |->
                   update_movement_departure(ms, data.movement_id, data.warehouse_id,
                                             data.product_id, data.timestamp,
                                             data.quantity),
               ret |-> TRUE]
    ELSE [warehouse_states |->
              update_warehouse_state(ws, data.warehouse_id, data.product_id,
                                     current_quantity + data.quantity),
          movements |->
              update_movement_arrival(ms, data.movement_id, data.warehouse_id,
                                      data.product_id, data.timestamp, data.quantity),
          ret |-> TRUE]

concurrent_frame ==
    <<op, response, accepted, touched, app_vars, lookups, evicted, consumer_vars>>

\* process_message(message) is called: a coroutine starts on the loop
Call(slot, data) ==
    /\ calls < MaxCalls
    /\ invocations[slot].pc = "idle"
    /\ invocations' = [invocations EXCEPT ![slot] =
                          [pc |-> "called", data |-> Some(data), quantity |-> 0]]
    /\ calls' = calls + 1
    /\ result' = None
    /\ UNCHANGED <<warehouse_states, movements, ledger_sum, concurrent_frame>>

\* line 21: await get_warehouse_state(...); the loop may run another
\* coroutine before this one goes on
AwaitState(slot) ==
    /\ invocations[slot].pc = "called"
    /\ \E data \in invocations[slot].data :
          invocations' = [invocations EXCEPT ![slot].pc = "read",
                             ![slot].quantity =
                                 get_warehouse_state(warehouse_states, data.warehouse_id,
                                                     data.product_id).quantity]
    /\ UNCHANGED <<warehouse_states, movements, calls, result, ledger_sum,
                   concurrent_frame>>

\* lines 23-44 with the state read at line 21
Apply(slot) ==
    /\ invocations[slot].pc = "read"
    /\ \E data \in invocations[slot].data :
       \E out \in {process_message_from(warehouse_states, movements, data,
                                        invocations[slot].quantity)} :
          /\ warehouse_states' = out.warehouse_states
          /\ movements' = out.movements
          /\ result' = Some(out.ret)
          /\ ledger_sum' = IF ~out.ret THEN ledger_sum
                           ELSE IF data.event = "arrival"
                           THEN ledger_sum + data.quantity
                           ELSE ledger_sum - data.quantity
    /\ invocations' = [invocations EXCEPT ![slot] = idle]
    /\ UNCHANGED <<calls, concurrent_frame>>

NextConcurrent ==
    \/ \E slot \in Slots, data \in ConcurrentMessages : Call(slot, data)
    \/ \E slot \in Slots : AwaitState(slot)
    \/ \E slot \in Slots : Apply(slot)

SpecConcurrent == Init /\ [][NextConcurrent]_vars

\* ------------------------------------- process_message over several keys
\* Events of two movements over four ledger keys.  Two of the keys,
\* ("WH-1", "A:B") and ("WH-1:A", "B"), give the same state_id "WH-1:A:B".
FrameWarehouses == {"WH-1", "WH-1:A"}
FrameProducts == {"A:B", "B"}
FrameMessages ==
    [movement_id : MovementIds, warehouse_id : FrameWarehouses,
     timestamp : {1}, event : EventKinds,
     product_id : FrameProducts, quantity : {1}]

\* process_message on a database that enforces the primary key of
\* warehouse_states: the insert of update_warehouse_state raises when another
\* key's row already has the id, and the except branch returns False.
process_message_db(ws, ms, data) ==
    LET state_id == data.warehouse_id \o ":" \o data.product_id
        found == \E r \in ws : r.warehouse_id = data.warehouse_id
                               /\ r.product_id = data.product_id
        taken == \E r \in ws : r.id = state_id
    IN  IF ~found /\ taken
        THEN process_message_store(ws, ms, data, "update_warehouse_state")
        ELSE process_message_store(ws, ms, data, "none")

\* One process_message call on such a database.
ApplyEvent(data) ==
    /\ calls < MaxCalls
    /\ \E out \in {process_message_db(warehouse_states, movements, data)} :
           /\ warehouse_states' = out.warehouse_states
           /\ movements' = out.movements
           /\ result' = Some(out.ret)
           /\ accepted' = IF out.ret THEN accepted \cup {data.movement_id} ELSE accepted
           /\ touched' = IF out.ret
                         THEN touched \cup {<<data.warehouse_id, data.product_id>>}
                         ELSE touched
    /\ calls' = calls + 1
    /\ op' = "process_message"
    /\ response' = None
    /\ UNCHANGED <<app_vars, ext_vars>>

NextFrame == \E data \in FrameMessages : ApplyEvent(data)

SpecFrame == Init /\ [][NextFrame]_vars

\* ------------------------------------------------------------ properties
\* The stored quantity of a key as the table holds it, a missing row read as 0.
RowQuantity(ws, w, p) ==
    LET rows == {r \in ws : r.warehouse_id = w /\ r.product_id = p}
    IN  IF rows = {} THEN 0 ELSE (CHOOSE r \in rows : TRUE).quantity

HasBothSides(m) == m.departure_time # None /\ m.arrival_time # None

\* C1: from an empty ledger, after any sequence of process_message calls on
\* events with quantity > 0, every stored quantity is >= 0.
C1_NonNegativeStock == \A r \in warehouse_states : r.quantity >= 0

\* a departure was accepted that took a key's stock down to exactly 0
C1_Witness ==
    /\ op = "process_message"
    /\ result = Some(TRUE)
    /\ \E r \in warehouse_states : r.quantity = 0
    /\ \E m \in movements : m.departure_quantity # None

\* C2: in every reachable state, process_message on a departure whose quantity
\* exceeds the current ledger quantity of its key returns False and leaves both
\* tables as they were.
C2_RejectionIsNoOp ==
    \A data \in {d \in Messages : d.event = "departure"} :
        data.quantity > RowQuantity(warehouse_states, data.warehouse_id, data.product_id)
        => \A out \in {process_message(warehouse_states, movements, data)} :
              /\ out.ret = FALSE
              /\ out.warehouse_states = warehouse_states
              /\ out.movements = movements

\* a departure was rejected at a warehouse that holds some stock, and the
\* movement record has no departure side
C2_Witness ==
    /\ op = "process_message"
    /\ result = Some(FALSE)
    /\ \E r \in warehouse_states : r.quantity > 0
    /\ movements # {}
    /\ \A m \in movements : m.departure_time = None /\ m.source_warehouse = None

\* C3: applying an event a second time with identical fields leaves the ledger
\* quantity of its key and the movement record of its movement_id as the first
\* application left them.
C3_Idempotence ==
    [][\A data \in ValidMessages :
          ProcessMessage(data)
          => LET again == process_message(warehouse_states', movements', data)
             IN  /\ RowQuantity(again.warehouse_states, data.warehouse_id, data.product_id)
                    = RowQuantity(warehouse_states', data.warehouse_id, data.product_id)
                 /\ get_movement_info(again.movements, data.movement_id)
                    = get_movement_info(movements', data.movement_id)]_vars

\* C4: for a movement with no record and a source warehouse with enough stock,
\* departure then arrival gives the same tables as arrival then departure, and
\* the record holds both sides with time_difference = T2 - T1 and
\* quantity_difference = qty' - qty.
C4_OrderIndependence ==
    \A dep \in {d \in ValidMessages :
                  /\ d.event = "departure"
                  /\ get_movement_info(movements, d.movement_id) = None
                  /\ RowQuantity(warehouse_states, d.warehouse_id, d.product_id)
                       >= d.quantity} :
      \A d1 \in {process_message(warehouse_states, movements, dep)} :
        \A arr \in {a \in ValidMessages : a.event = "arrival"
                                          /\ a.movement_id = dep.movement_id
                                          /\ a.product_id = dep.product_id} :
          \A da \in {process_message(d1.warehouse_states, d1.movements, arr)} :
            \A a1 \in {process_message(warehouse_states, movements, arr)} :
              \A ad \in {process_message(a1.warehouse_states, a1.movements, dep)} :
                /\ d1.ret /\ da.ret /\ a1.ret /\ ad.ret
                /\ da.movements = ad.movements
                /\ da.warehouse_states = ad.warehouse_states
                /\ get_movement_info(da.movements, dep.movement_id) =
                     Some([movement_id |-> dep.movement_id,
                           source_warehouse |-> Some(dep.warehouse_id),
                           destination_warehouse |-> Some(arr.warehouse_id),
                           product_id |-> dep.product_id,
                           departure_time |-> Some(dep.timestamp),
                           arrival_time |-> Some(arr.timestamp),
                           time_difference_seconds |->
                               Some(arr.timestamp - dep.timestamp),
                           departure_quantity |-> Some(dep.quantity),
                           arrival_quantity |-> Some(arr.quantity),
                           quantity_difference |-> Some(arr.quantity - dep.quantity)])

\* MOV-2 left WH-1 (stocked by MOV-1) and arrived at WH-2 earlier than it left,
\* with one unit more than departed
C4_Witness ==
    /\ Cardinality(movements) = 2
    /\ \E m \in movements :
          /\ m.movement_id = "MOV-2"
          /\ m.source_warehouse = Some("WH-1")
          /\ m.destination_warehouse = Some("WH-2")
          /\ m.departure_quantity = Some(1)
          /\ m.arrival_quantity = Some(2)
          /\ m.quantity_difference = Some(1)
          /\ m.departure_time = Some(2)
          /\ m.arrival_time = Some(1)
          /\ m.time_difference_seconds = Some(-1)

\* C5: a record with both sides has time_difference_seconds = arrival_time -
\* departure_time and quantity_difference = arrival_quantity -
\* departure_quantity of the stored sides; a record with one side has both null.
C5_DerivedFieldsFresh ==
    \A m \in movements :
        IF HasBothSides(m)
        THEN /\ m.time_difference_seconds
                  = Some(The(m.arrival_time) - The(m.departure_time))
             /\ m.quantity_difference
                  = Some(The(m.arrival_quantity) - The(m.departure_quantity))
        ELSE /\ m.time_difference_seconds = None
             /\ m.quantity_difference = None

\* MOV-1 is the only movement: WH-1 still holds a unit after one unit departed
\* from it, while the record's arrival side names WH-2, so the arrival side was
\* delivered again with other values; the arrival is earlier than the departure
C5_Witness ==
    /\ RowQuantity(warehouse_states, "WH-1", "PROD-1") = 1
    /\ \E m \in movements :
          /\ m.source_warehouse = Some("WH-1")
          /\ m.departure_quantity = Some(1)
          /\ m.destination_warehouse = Some("WH-2")
          /\ m.arrival_quantity = Some(2)
          /\ m.quantity_difference = Some(1)
          /\ m.time_difference_seconds = Some(-1)

CacheKeys(cache) == {cache[i].key : i \in 1..Len(cache)}

\* C7: when process_message has changed a ledger key or a movement record, the
\* cache entries of those keys are gone when it returns, so that no later
\* lookup through a cached handler answers from an entry stored before.
C7_CacheInvalidated ==
    [][\A data \in AppMessages :
          (ProcessMessage(data) /\ result' = Some(TRUE))
          => /\ data.movement_id \notin CacheKeys(movement_cache')
             /\ (data.warehouse_id \o ":" \o data.product_id)
                   \notin CacheKeys(warehouse_cache')]_vars

\* C8: GetMovement answers 404 exactly for a movement_id no accepted event
\* carried, answers the stored record otherwise, and changes no record.
C8_GetMovement ==
    [][\A movement_id \in MovementIds :
          (op' = "read_movement" /\ ReadMovement(movement_id))
          => /\ (The(response').status = 404) <=> (movement_id \notin accepted)
             /\ movement_id \in accepted
                  => /\ The(response').status = 200
                     /\ The(response').movement
                          = {m \in movements : m.movement_id = movement_id}
                     /\ The(response').movement # None
             /\ movements' = movements]_vars

\* NotFound for one movement while the other one has a record
C8_Witness ==
    /\ op = "read_movement"
    /\ The(response).status = 404
    /\ accepted = {"MOV-1"}
    /\ \E m \in movements : m.movement_id = "MOV-1"

\* C9: GetWarehouseStock on a key no accepted event touched answers 200 with
\* that warehouse_id, that product_id and quantity 0, and inserts no row.
C9_UnseenStock ==
    [][\A w \in Warehouses, p \in Products :
          (op' = "read_warehouse_state" /\ <<w, p>> \notin touched
           /\ ReadWarehouseState(w, p))
          => /\ The(response') = [status |-> 200, movement |-> None,
                             state |-> Some([warehouse_id |-> w, product_id |-> p,
                                             quantity |-> 0])]
             /\ warehouse_states' = warehouse_states]_vars

\* quantity 0 for WH-2 while WH-1 holds stock
C9_Witness ==
    /\ op = "read_warehouse_state"
    /\ The(response).state = Some([warehouse_id |-> "WH-2", product_id |-> "PROD-1",
                              quantity |-> 0])
    /\ touched = {<<"WH-1", "PROD-1">>}
    /\ warehouse_states # {}
    /\ \A r \in warehouse_states : r.warehouse_id = "WH-1"

\* C10: an event with a non-positive quantity is not reported as applied and
\* changes neither table.
C10_NonPositiveDropped ==
    [][\A data \in Messages :
          (data.quantity <= 0 /\ ProcessMessage(data))
          => /\ result' = Some(FALSE)
             /\ warehouse_states' = warehouse_states
             /\ movements' = movements]_vars

Range(seq) == {seq[i] : i \in DOMAIN seq}

\* The exceptions that leave the for loop of _consume (caught at lines 62-63).
LoopExits == {"transport", "deserializer"}

\* C11: a message process_message returned False for does not halt the
\* consumer and is not retried: no offset is passed to process_message twice,
\* every well-formed message the consumer has moved past was passed to
\* process_message, whatever was returned for the ones before it, and the
\* thread leaves the loop only on stop() or on an exception of the transport
\* client, never on a returned False.
C11_RejectionDoesNotHalt ==
    /\ \A i, j \in DOMAIN submitted : i < j => submitted[i] < submitted[j]
    /\ \A o \in 1..(position - 1) : topic[o].envelope => o \in Range(submitted)
    /\ consumer_pc \in {"closing", "terminated"} => should_stop \/ raised \in LoopExits

\* A rejected departure (no stock, no store exception) followed by a message
\* that was accepted.
C11_Witness ==
    \E i, j \in DOMAIN returned :
        /\ i < j
        /\ ~returned[i].ret /\ ~returned[i].raised
        /\ returned[i].offset < returned[j].offset
        /\ returned[j].ret

\* C12: a malformed payload, of either kind, is logged and skipped: it is never
\* passed to process_message, and the thread goes on consuming, so it leaves
\* the loop only on stop() or on a failure of the transport connection.
C12_MalformedSkipped ==
    /\ \A o \in Range(submitted) : topic[o].json /\ topic[o].envelope
    /\ consumer_pc \in {"closing", "terminated"} => should_stop \/ raised = "transport"

\* C13: after a failure of the transport connection (creating the KafkaConsumer
\* or iterating it raised) the consumer reconnects: unless stop() was called
\* its thread has not ended.
C13_Reconnects ==
    (raised = "transport" /\ ~should_stop) => consumer_pc # "terminated"

\* C14: an offset is committed only after process_message has returned for its
\* message: every committed offset of a well-formed message has a returned
\* coroutine, so no message is committed but unapplied.
C14_CommitAfterReturn ==
    \A o \in 1..committed :
        topic[o].envelope => \E i \in DOMAIN returned : returned[i].offset = o

\* C15: the read-modify-write of one invocation is not interleaved with that
\* of another on the same key, so no ledger update is lost and no quantity is
\* negative: when no invocation is running, the stored quantity of the key is
\* the sum of the signed quantities of the invocations that returned True.
C15_NoLostUpdate ==
    /\ \A r \in warehouse_states : r.quantity >= 0
    /\ (\A slot \in Slots : invocations[slot].pc = "idle")
          => RowQuantity(warehouse_states, "WH-1", "PROD-1") = ledger_sum

\* C16: a store exception inside process_message reaches the consumer as a
\* fault of its own: the consumer is never about to pull the next message
\* having logged the current one, whose coroutine ended on a store exception,
\* as an ordinary message that was not processed.
C16_StoreFaultPropagated ==
    \A i \in DOMAIN returned :
        (returned[i].raised /\ returned[i].offset = position)
            => ~(consumer_pc = "next" /\ logged = "not_processed")

DepartureSide(m) == <<m.source_warehouse, m.departure_time, m.departure_quantity>>
ArrivalSide(m) == <<m.destination_warehouse, m.arrival_time, m.arrival_quantity>>
Recorded(side) == \A i \in 1..3 : side[i] # None

\* C17: whatever event process_message is given next, every movement record
\* is still there afterwards, a side that was recorded is still recorded, a
\* departure leaves the arrival side of its record as it was, an arrival
\* leaves the departure side as it was, and the records of other movements
\* are not changed.
C17_MovementMonotonic ==
    \A data \in ValidMessages :
    \A out \in {process_message(warehouse_states, movements, data)} :
    \A m \in movements :
    \E n \in out.movements :
        /\ n.movement_id = m.movement_id
        /\ Recorded(DepartureSide(m)) => Recorded(DepartureSide(n))
        /\ Recorded(ArrivalSide(m)) => Recorded(ArrivalSide(n))
        /\ (data.movement_id = m.movement_id /\ data.event = "departure")
              => ArrivalSide(n) = ArrivalSide(m)
        /\ (data.movement_id = m.movement_id /\ data.event = "arrival")
              => DepartureSide(n) = DepartureSide(m)
        /\ data.movement_id # m.movement_id => n = m

\* A record with both sides recorded, the departure having been merged into
\* the record the arrival created.
C17_Witness ==
    /\ op = "process_message"
    /\ result = Some(TRUE)
    /\ \E m \in movements :
          /\ Recorded(DepartureSide(m)) /\ Recorded(ArrivalSide(m))
          /\ m.departure_time = Some(2) /\ m.arrival_time = Some(1)

\* C18: the product_id of a movement record never changes: whatever event
\* process_message is given next, one naming another product included, every
\* record of the movement afterwards has the product_id the record had.
C18_ProductImmutable ==
    \A data \in ProductMessages :
    \A out \in {process_message(warehouse_states, movements, data)} :
    \A m \in movements :
        /\ \E n \in out.movements : n.movement_id = m.movement_id
        /\ \A n \in out.movements :
              n.movement_id = m.movement_id => n.product_id = m.product_id

\* The record was created for PROD-1 and its arrival side was then recorded
\* by an event for PROD-2: the ledger of the destination holds PROD-2 only.
C18_Witness ==
    \E m \in movements, w \in Warehouses :
        /\ m.product_id = "PROD-1"
        /\ Recorded(DepartureSide(m))
        /\ m.destination_warehouse = Some(w)
        /\ RowQuantity(warehouse_states, w, "PROD-2") > 0
        /\ \A r \in warehouse_states : ~(r.warehouse_id = w /\ r.product_id = "PROD-1")

\* C19: consumption is sequential and ordered: at most one coroutine submitted
\* by the consumer is in flight, the thread is not at the for statement while
\* one is, and the coroutines return in the order of their offsets, which is
\* the order they were submitted in.
C19_Sequential ==
    /\ Cardinality(in_flight) <= 1
    /\ consumer_pc \in {"next", "got"} => in_flight = {}
    /\ Len(returned) <= Len(submitted)
    /\ \A i \in DOMAIN returned : returned[i].offset = submitted[i]
    /\ \A i, j \in DOMAIN returned : i < j => returned[i].offset < returned[j].offset

\* Two messages were applied one after the other.
C19_Witness ==
    /\ Len(returned) >= 2
    /\ returned[1].ret /\ returned[2].ret
    /\ consumer_pc = "next"

\* The n most recently looked up keys of a log, least recent first.
MostRecent(log, n) ==
    IF Len(log) <= n THEN log ELSE SubSeq(log, Len(log) - n + 1, Len(log))

KeysOf(cache) == [i \in 1..Len(cache) |-> cache[i].key]

\* C20: each memoized lookup holds at most maxsize (100) entries, they are
\* those of the most recently looked up keys, and a key whose entry was
\* evicted is answered with the value the dict holds now: by the memoized
\* function if it is looked up next, and by the handler that looked it up last.
C20_BoundedLru ==
    /\ Len(movement_cache) <= maxsize
    /\ Len(warehouse_cache) <= maxsize
    /\ KeysOf(movement_cache) = MostRecent(lookups["movement"], maxsize)
    /\ KeysOf(warehouse_cache) = MostRecent(lookups["warehouse"], maxsize)
    /\ \A k \in evicted["movement"] :
          get_movement_cached(movement_cache, k).value = dict_get(app_movements, k)
    /\ \A k \in evicted["warehouse"] :
          get_warehouse_state_cached(warehouse_cache, k).value
              = dict_get(app_warehouses, k)
    /\ op = "app_read_movement" =>
          \A k \in {lookups["movement"][Len(lookups["movement"])]} :
              k \in evicted["movement"] =>
                  IF dict_get(app_movements, k) = None
                  THEN The(response).status = 404
                  ELSE The(response).movement = dict_get(app_movements, k)
    /\ op = "app_read_warehouse_state" =>
          \A k \in {lookups["warehouse"][Len(lookups["warehouse"])]} :
              k \in evicted["warehouse"] =>
                  IF dict_get(app_warehouses, k) = None
                  THEN The(The(response).state).quantity = 0
                  ELSE The(response).state = dict_get(app_warehouses, k)

\* The entry of WH-1:PROD-1 was evicted from the full cache and the key was
\* then looked up again: the handler answered the quantity of the dict.
C20_Witness ==
    /\ op = "app_read_warehouse_state"
    /\ Len(warehouse_cache) = maxsize
    /\ "WH-1:PROD-1" \in evicted["warehouse"]
    /\ lookups["warehouse"][Len(lookups["warehouse"])] = "WH-1:PROD-1"
    /\ The(The(response).state).quantity = 100

OtherRows(ws, data) ==
    {r \in ws : ~(r.warehouse_id = data.warehouse_id /\ r.product_id = data.product_id)}
OtherMovements(ms, data) == {m \in ms : m.movement_id # data.movement_id}

\* C21: whatever event process_message is given next, and whether it returns
\* True or False, the ledger rows of every key other than the event's
\* (warehouse_id, product_id) and the records of every movement other than the
\* event's movement_id are afterwards what they were.
C21_Frame ==
    \A data \in FrameMessages :
    \A out \in {process_message_db(warehouse_states, movements, data)} :
        /\ OtherRows(out.warehouse_states, data) = OtherRows(warehouse_states, data)
        /\ OtherMovements(out.movements, data) = OtherMovements(movements, data)

\* Three ledger keys and both movements are stored, so every next event has
\* other rows and another record to leave alone.
C21_Witness ==
    /\ op = "process_message"
    /\ result = Some(TRUE)
    /\ Cardinality(warehouse_states) >= 3
    /\ Cardinality(movements) = 2

\* C22: a process_message call that returns False, a store exception after the
\* ledger write included, leaves both tables as they were before the call.
C22_FailedApplyAllOrNothing ==
    [][(Len(returned') > Len(returned) /\ ~returned'[Len(returned')].ret)
          => (warehouse_states' = warehouse_states /\ movements' = movements)]_vars

\* The steps the consumer thread and the loop take by themselves, without a
\* new message from the transport and without a failure.
ThreadStep ==
    \/ Connect
    \/ Iterate
    \/ Handle
    \/ \E offset \in 1..MaxOffsets : RunCoroutine(offset, "none")
    \/ AwaitResult
    \/ Close

\* C23: once stop() was called on a started consumer, its thread can always
\* go on towards closing the Kafka consumer, even when the transport has no
\* further message; and a message pulled after stop() and dropped by the break
\* is not committed.
C23_StopTerminates ==
    /\ (should_stop /\ consumer_pc \in {"connect", "next", "got", "wait", "closing"})
          => ENABLED ThreadStep
    /\ (should_stop /\ consumer_pc = "terminated" /\ position > 0
          /\ KafkaMessage(topic[position]).raises = FALSE
          /\ position \notin Range(submitted))
          => committed < position

====
